---- MODULE Spec2Model ----
(***************************************************************************)
(* Model of the tool-calling loop of the fantasy football analyzer:        *)
(* analyze_with_openai (src/main.py) with its retry wrapper                *)
(* responses_with_backoff, and the tool handlers of src/fantasy_data.py.   *)
(*                                                                         *)
(* Python's None is the empty tuple; a present value v is <<v>>.           *)
(* Points are integers in hundredths (12.55 points is 1255).               *)
(***************************************************************************)
EXTENDS Integers, Sequences, FiniteSets, TLC

\* ------------------------------------------------------------------ bounds
\* Largest number of items in one response's output sequence.
MaxItems == 2
\* Largest number of calls of responses_with_backoff explored in one run.
MaxRequests == 3
\* Longest free agent list drawn from PlayerPool.
MaxAgents == 3

\* ------------------------------------------------------- program constants
\* stop_after_attempt(6)
StopAfterAttempt == 6
\* wait_random_exponential(min=1, max=60), in seconds
WaitMin == 1
WaitMax == 60
\* def get_waiver_wire_for_tool(league, position=None, size=5)
HandlerDefaultSize == 5
\* tool_args.get('size', 3)
DispatchDefaultSize == 3
\* waiver_tool: "size": {"default": 3, "minimum": 1, "maximum": 10}
SchemaDefaultSize == 3
SchemaMinSize == 1
SchemaMaxSize == 10
\* waiver_tool: "position": {"enum": [...]}
SchemaPositions == {"QB", "RB", "WR", "TE", "K", "D/ST"}
\* fetch_size = 75 if position else 50
FetchSizeFiltered == 75
FetchSizeAll == 50
\* weekly_projection > 2.0, in hundredths
MinProjection == 200

None == <<>>
Some(v) == <<v>>

\* ------------------------------------------------------------ league data
\* The league snapshot the handlers read: league.current_week, league.teams
\* (with rosters) and the provider's free agent list, best first as ESPN
\* returns it.
League ==
  [current_week |-> 1,
   teams |-> << [team_id |-> 1, team_name |-> "Alpha", wins |-> 1, losses |-> 0,
                 roster |-> << [playerId |-> 7, name |-> "P7", position |-> "QB"] >>],
                [team_id |-> 2, team_name |-> "Beta", wins |-> 0, losses |-> 1,
                 roster |-> << [playerId |-> 8, name |-> "P8", position |-> "RB"] >>] >>,
   free_agents |-> << [playerId |-> 11, position |-> "QB", projected_points |-> 1250],
                      [playerId |-> 12, position |-> "RB", projected_points |-> 180],
                      [playerId |-> 13, position |-> "WR", projected_points |-> 904],
                      [playerId |-> 14, position |-> "QB", projected_points |-> 1256] >>]

\* ------------------------------------------------------------------- JSON
\* The raw argument strings the model host sends in a function_call item.
RawArguments ==
  { "{}",
    "{\"position\": \"QB\", \"size\": 1}",
    "{\"team_id\": 1}",
    "not json",
    "[1]" }

\* Argument strings that are JSON objects with values the tools' schemas and
\* the league do not cover.
WideArguments ==
  RawArguments \cup
  { "{\"size\": 11}",
    "{\"size\": 0}",
    "{\"position\": \"XX\"}",
    "{\"position\": \"DST\"}",
    "{\"team_id\": 9}",
    "{\"player_id\": 7}",
    "{\"player_id\": 99}" }

EmptyDict == [position |-> None, size |-> None, team_id |-> None, player_id |-> None]

\* json.loads on the strings above: ok is FALSE when it raises; isDict tells
\* a JSON object from another JSON value; value maps each key the handlers
\* read to its value, None when the key is absent.
JsonLoads(raw) ==
  CASE raw = "{}" -> [ok |-> TRUE, isDict |-> TRUE, value |-> EmptyDict]
    [] raw = "{\"position\": \"QB\", \"size\": 1}" ->
         [ok |-> TRUE, isDict |-> TRUE,
          value |-> [EmptyDict EXCEPT !.position = Some("QB"), !.size = Some(1)]]
    [] raw = "{\"team_id\": 1}" ->
         [ok |-> TRUE, isDict |-> TRUE, value |-> [EmptyDict EXCEPT !.team_id = Some(1)]]
    [] raw = "[1]" -> [ok |-> TRUE, isDict |-> FALSE, value |-> EmptyDict]
    [] raw = "{\"size\": 11}" ->
         [ok |-> TRUE, isDict |-> TRUE, value |-> [EmptyDict EXCEPT !.size = Some(11)]]
    [] raw = "{\"size\": 0}" ->
         [ok |-> TRUE, isDict |-> TRUE, value |-> [EmptyDict EXCEPT !.size = Some(0)]]
    [] raw = "{\"position\": \"XX\"}" ->
         [ok |-> TRUE, isDict |-> TRUE, value |-> [EmptyDict EXCEPT !.position = Some("XX")]]
    [] raw = "{\"position\": \"DST\"}" ->
         [ok |-> TRUE, isDict |-> TRUE, value |-> [EmptyDict EXCEPT !.position = Some("DST")]]
    [] raw = "{\"team_id\": 9}" ->
         [ok |-> TRUE, isDict |-> TRUE, value |-> [EmptyDict EXCEPT !.team_id = Some(9)]]
    [] raw = "{\"player_id\": 7}" ->
         [ok |-> TRUE, isDict |-> TRUE, value |-> [EmptyDict EXCEPT !.player_id = Some(7)]]
    [] raw = "{\"player_id\": 99}" ->
         [ok |-> TRUE, isDict |-> TRUE, value |-> [EmptyDict EXCEPT !.player_id = Some(99)]]
    [] OTHER -> [ok |-> FALSE, isDict |-> FALSE, value |-> EmptyDict]

\* json.dumps(result): the serialized form of a handler result.
JsonDumps(result) == [encoding |-> "json", text |-> result]

\* dict.get(key, default) on a parsed object; default and result are optional
\* values.
DictGet(d, key, default) == IF d[key] = None THEN default ELSE d[key]

\* ----------------------------------------------------------------- handlers
\* A handler outcome: raised tells whether the call threw, value is the
\* returned dict otherwise.
Returned(v) == [raised |-> FALSE, value |-> v]
Raised(e) == [raised |-> TRUE, value |-> [exception |-> e]]

ValidPositions == {"QB", "RB", "WR", "TE", "K", "D/ST", "DST"}

\* "if position": a string that is neither None nor empty.
Truthy(v) == v # None /\ v # Some("")

RECURSIVE InsertDesc(_, _)
\* Insert p into a list sorted by descending projected_points, after every
\* element that is not smaller (sorted(..., reverse=True) is stable).
InsertDesc(p, s) ==
  IF s = <<>> THEN <<p>>
  ELSE IF Head(s).projected_points >= p.projected_points
       THEN <<Head(s)>> \o InsertDesc(p, Tail(s))
       ELSE <<p>> \o s

\* SortDesc leaving the list in the provider's order.
SortDesc_Unsorted(s) == s

\* sorted(waiver_players, key=projected_points, reverse=True)
SortDesc(s) ==
  LET RECURSIVE Go(_, _)
      Go(rest, acc) == IF rest = <<>> THEN acc
                       ELSE Go(Tail(rest), InsertDesc(Head(rest), acc))
  IN Go(s, <<>>)

\* round(x, 1) of a value in hundredths, half to even, result in hundredths.
Round1(h) ==
  LET q == h \div 10
      r == h % 10
  IN IF r < 5 THEN q * 10
     ELSE IF r > 5 THEN (q + 1) * 10
     ELSE IF q % 2 = 0 THEN q * 10 ELSE (q + 1) * 10

Take(s, n) == SubSeq(s, 1, IF n < Len(s) THEN (IF n < 0 THEN 0 ELSE n) ELSE Len(s))

\* get_waiver_wire_for_tool(league, position, size); providerFails: the call
\* league.free_agents(...) throws.
get_waiver_wire_for_tool(league, position, size, providerFails) ==
  IF Truthy(position) /\ position[1] \notin ValidPositions
  THEN Returned([error |-> "Invalid position"])
  ELSE IF providerFails THEN Raised("ProviderError")
  ELSE
    LET pos == IF position = Some("DST") THEN Some("D/ST")
               ELSE IF Truthy(position) THEN position ELSE None
        fetch_size == IF pos # None THEN FetchSizeFiltered ELSE FetchSizeAll
        free_agents == Take(league.free_agents, fetch_size)
        keep(p) == /\ (pos = None \/ p.position = pos[1])
                   /\ p.projected_points > MinProjection
        waiver_players == SelectSeq(free_agents, keep)
        waiver_data == Take(SortDesc(waiver_players), size)
        rounded == [i \in DOMAIN waiver_data |->
                      [waiver_data[i] EXCEPT !.projected_points = Round1(@)]]
    IN IF waiver_data = <<>>
       THEN Returned([message |-> "No available players found"])
       ELSE Returned([position |-> IF pos # None THEN pos[1] ELSE "All",
                      available_players |-> rounded,
                      count |-> Len(rounded)])

\* get_team_details_for_tool raising when no team matches.
get_team_details_for_tool_RaisesUnmatched(league, team_id) ==
  LET found == SelectSeq(league.teams, LAMBDA t: team_id # None /\ t.team_id = team_id[1])
  IN IF found = <<>>
     THEN Raised("StopIteration")
     ELSE Returned([team_name |-> found[1].team_name,
                    wins |-> found[1].wins, losses |-> found[1].losses,
                    lineup |-> found[1].roster])

\* get_team_details_for_tool(league, team_id)
get_team_details_for_tool(league, team_id) ==
  LET found == SelectSeq(league.teams, LAMBDA t: team_id # None /\ t.team_id = team_id[1])
  IN IF found = <<>>
     THEN Returned([error |-> "Team not found"])
     ELSE Returned([team_name |-> found[1].team_name,
                    wins |-> found[1].wins, losses |-> found[1].losses,
                    lineup |-> found[1].roster])

\* get_player_stats_for_tool(league, player_id)
get_player_stats_for_tool(league, player_id) ==
  LET slots == UNION { { <<t, p>> : p \in DOMAIN league.teams[t].roster } :
                         t \in DOMAIN league.teams }
      hits == { x \in slots : /\ player_id # None
                              /\ league.teams[x[1]].roster[x[2]].playerId = player_id[1] }
  IN IF hits = {}
     THEN Returned([error |-> "Player not found"])
     ELSE LET h == CHOOSE x \in hits : \A y \in hits :
                     x[1] < y[1] \/ (x[1] = y[1] /\ x[2] <= y[2])
          IN Returned([player_id |-> league.teams[h[1]].roster[h[2]].playerId,
                       name |-> league.teams[h[1]].roster[h[2]].name,
                       fantasy_team |-> league.teams[h[1]].team_name])

\* ------------------------------------------------------------ the model host
\* Exceptions openai_client.responses.create can throw.
HostErrors == {"APIConnectionError", "RateLimitError"}

HandledTools == {"get_waiver_wire", "get_team_details", "get_player_stats"}

\* The (name, arguments) pairs of the function_call items the host sends:
\* each declared tool with arguments of its schema and with broken ones, and
\* a tool that was never declared.
FunctionCallShapes ==
  { <<"get_waiver_wire", "{\"position\": \"QB\", \"size\": 1}">>,
    <<"get_waiver_wire", "not json">>,
    <<"get_waiver_wire", "[1]">>,
    <<"get_team_details", "{\"team_id\": 1}">>,
    <<"get_player_stats", "{}">>,
    <<"does_not_exist", "not json">> }

\* Every declared tool with every argument string, and the undeclared tool.
WideShapes ==
  (HandledTools \X WideArguments) \cup { <<"does_not_exist", "not json">> }

NoCallId == <<0, 0>>

FunctionCallItem(name, arguments) ==
  [type |-> "function_call", name |-> name, arguments |-> arguments,
   call_id |-> NoCallId, content |-> <<>>]

WebSearchItem ==
  [type |-> "web_search_call", name |-> "", arguments |-> "",
   call_id |-> NoCallId, content |-> <<>>]

MessageItem(content) ==
  [type |-> "message", name |-> "", arguments |-> "",
   call_id |-> NoCallId, content |-> content]

\* The content lists of the message items the host sends.
MessageContents ==
  { << [type |-> "output_text", text |-> "done"] >>,
    << [type |-> "refusal", text |-> "no"], [type |-> "output_text", text |-> "!"] >> }

\* Items that ask nothing of the driver, and all items.
OtherItems == {WebSearchItem} \cup { MessageItem(c) : c \in MessageContents }
Items == OtherItems \cup { FunctionCallItem(x[1], x[2]) : x \in FunctionCallShapes }

\* The values of response.output_text: the attribute is missing (None) or
\* holds a string.
OutputTexts == {None, Some(""), Some("done")}

\* The host gives every function_call item of a response its own call_id.
WithCallIds(output, id) ==
  [i \in DOMAIN output |->
     IF output[i].type = "function_call"
     THEN [output[i] EXCEPT !.call_id = <<id, i>>]
     ELSE output[i]]

HasFunctionCall(output) == \E i \in DOMAIN output : output[i].type = "function_call"

\* The output sequences with and without function_call items.
ToolOutputs == { o \in UNION { [1..n -> Items] : n \in 1..MaxItems } : HasFunctionCall(o) }
FinalOutputs == UNION { [1..n -> OtherItems] : n \in 0..MaxItems }

\* The host's id-th response.
HostResponse(id, output, output_text) ==
  [id |-> id, output |-> WithCallIds(output, id), output_text |-> output_text]

NoResponse == [id |-> 0, output |-> <<>>, output_text |-> None]

PromptInput == [kind |-> "prompt", items |-> <<>>]
OutputsInput(function_call_outputs) == [kind |-> "outputs", items |-> function_call_outputs]

NoRequest == [input |-> [kind |-> "none", items |-> <<>>], previous_response_id |-> None]
NoError == [type |-> "", cause |-> ""]

\* ---------------------------------------------------------------- dispatch
\* Lines 256-261: tool_args = {} unless json.loads succeeds.
ParseToolArgs(tool_call) ==
  LET parsed == JsonLoads(tool_call.arguments)
  IN IF parsed.ok THEN [isDict |-> parsed.isDict, value |-> parsed.value]
     ELSE [isDict |-> TRUE, value |-> EmptyDict]

HandlerCall(handler, position, size, team_id, player_id) ==
  [handler |-> handler, position |-> position, size |-> size,
   team_id |-> team_id, player_id |-> player_id]

\* What one iteration of the dispatch loop does with its tool call: raised
\* and exception tell whether it threw, calls lists the handler invocation
\* (none or one), result is <<>> for Python's None and <<r>> for a dict r.
Outcome(raised, exception, calls, result) ==
  [raised |-> raised, exception |-> exception, calls |-> calls, result |-> result]

\* Lines 264-295: select and run the handler of tool_name on the league
\* object snapshot.
ExecuteTool(snapshot, tool_name, tool_args, providerFails) ==
  IF tool_name = "" THEN Outcome(FALSE, "", <<>>, <<>>)
  ELSE IF tool_name \notin HandledTools THEN Outcome(FALSE, "", <<>>, <<>>)
  ELSE IF ~tool_args.isDict THEN Outcome(TRUE, "AttributeError", <<>>, <<>>)
  ELSE IF tool_name = "get_waiver_wire" THEN
    LET position == DictGet(tool_args.value, "position", None)
        size == DictGet(tool_args.value, "size", Some(DispatchDefaultSize))
        r == get_waiver_wire_for_tool(snapshot, position, size[1], providerFails)
        call == HandlerCall(tool_name, position, size, None, None)
    IN IF r.raised THEN Outcome(TRUE, r.value.exception, <<call>>, <<>>)
       ELSE Outcome(FALSE, "", <<call>>, <<r.value>>)
  ELSE IF tool_name = "get_team_details" THEN
    LET team_id == DictGet(tool_args.value, "team_id", None)
        r == get_team_details_for_tool(snapshot, team_id)
        call == HandlerCall(tool_name, None, None, team_id, None)
    IN IF r.raised THEN Outcome(TRUE, r.value.exception, <<call>>, <<>>)
       ELSE Outcome(FALSE, "", <<call>>, <<r.value>>)
  ELSE
    LET player_id == DictGet(tool_args.value, "player_id", None)
        r == get_player_stats_for_tool(snapshot, player_id)
        call == HandlerCall(tool_name, None, None, None, player_id)
    IN IF r.raised THEN Outcome(TRUE, r.value.exception, <<call>>, <<>>)
       ELSE Outcome(FALSE, "", <<call>>, <<r.value>>)

\* LeagueAfter with the free agent a get_waiver_wire call lists first taken
\* off the provider's list.
LeagueAfter_DropsFreeAgent(snapshot, calls) ==
  IF calls # <<>> /\ calls[1].handler = "get_waiver_wire" /\ snapshot.free_agents # <<>>
  THEN [snapshot EXCEPT !.free_agents = Tail(@)]
  ELSE snapshot

\* The league object after the handler invocations calls: the handlers fill
\* dicts and lists of their own (fantasy_data.py 146-155, 161-162, 190-199,
\* 405-461) and assign to no attribute of league, its teams or its players.
LeagueAfter(snapshot, calls) == snapshot

FunctionCallOutput(call_id, result) ==
  [type |-> "function_call_output", call_id |-> call_id, output |-> JsonDumps(result)]

\* AppendOutput with the record put at the front of the list.
AppendOutput_Prepend(function_call_outputs, tool_call, outcome) ==
  IF outcome.result # <<>>
  THEN <<FunctionCallOutput(tool_call.call_id, outcome.result[1])>> \o function_call_outputs
  ELSE function_call_outputs

\* Lines 297-303: the records one iteration appends to function_call_outputs.
AppendOutput(function_call_outputs, tool_call, outcome) ==
  IF outcome.result # <<>>
  THEN Append(function_call_outputs, FunctionCallOutput(tool_call.call_id, outcome.result[1]))
  ELSE function_call_outputs

\* CollectFunctionCalls with web_search_call items collected as well.
CollectFunctionCalls_WithWebSearch(output) ==
  SelectSeq(output, LAMBDA item: item.type \in {"function_call", "web_search_call"})

\* CollectFunctionCalls with every item that is not a message collected.
CollectFunctionCalls_AllButMessages(output) ==
  SelectSeq(output, LAMBDA item: item.type # "message")

\* Lines 232-245: the items of response.output the loop will dispatch.
CollectFunctionCalls(output) ==
  SelectSeq(output, LAMBDA item: item.type = "function_call")

\* ------------------------------------------------------------- final text
RECURSIVE ConcatTexts(_)
ConcatTexts(content) ==
  IF content = <<>> THEN ""
  ELSE (IF Head(content).type = "output_text" THEN Head(content).text ELSE "")
         \o ConcatTexts(Tail(content))

RECURSIVE MessageText(_)
\* Lines 326-334: the text fragments of the message items, in output order.
MessageText(output) ==
  IF output = <<>> THEN ""
  ELSE (IF Head(output).type = "message" THEN ConcatTexts(Head(output).content) ELSE "")
         \o MessageText(Tail(output))

DefaultText == "Analysis complete."

\* ExtractFinalText without the fixed text for an empty result.
ExtractFinalText_NoDefault(resp) ==
  IF resp.output_text # None /\ resp.output_text[1] # ""
  THEN resp.output_text[1]
  ELSE MessageText(resp.output)

\* Lines 321-336: the value analyze_with_openai returns for its last response.
ExtractFinalText(resp) ==
  IF resp.output_text # None /\ resp.output_text[1] # ""
  THEN resp.output_text[1]
  ELSE LET final_text == MessageText(resp.output)
       IN IF final_text # "" THEN final_text ELSE DefaultText

\* ------------------------------------------------------------------- state
VARIABLES
  pc,                        \* where analyze_with_openai stands
  req,                       \* kwargs of the responses_with_backoff call in progress
  response,                  \* the variable response
  function_calls_to_execute, \* the list collected from response.output
  function_call_outputs,     \* the list built by the dispatch loop
  idx,                       \* position of the dispatch loop in function_calls_to_execute
  attempt_number,            \* attempt number of the retry wrapper's current call
  hostCalls,                 \* openai_client.responses.create calls made by that call
  hostFailures,              \* how many of them threw
  requests,                  \* number of responses_with_backoff calls so far
  invoked,                   \* handler invocations of the current turn, in order
  returnValue,               \* value returned by analyze_with_openai
  error,                     \* exception leaving analyze_with_openai
  sleep,                     \* seconds the wrapper waits before its next attempt
  league,                    \* the league object the handlers read
  mainPc,                    \* where main stands
  env,                       \* the process environment after load_dotenv()
  debug,                     \* args.debug
  exitStatus,                \* exit status of the process, None while it runs
  leagueRequested,           \* League(...) has been called: the provider was contacted
  printed,                   \* the prompt or the analysis main has printed
  current,                   \* the run of analyze_with_openai that is executing
  other,                     \* the local state of the run that is not executing
  handlerCall,               \* arguments of a direct call of a handler, None before it
  handlerResult,             \* what that call returned or raised
  runAttempts                \* host calls of the run so far, where a specification counts them

vars == <<pc, req, response, function_calls_to_execute, function_call_outputs, idx,
          attempt_number, hostCalls, hostFailures, requests, invoked, returnValue, error,
          sleep, league, mainPc, env, debug, exitStatus, leagueRequested, printed,
          current, other, handlerCall, handlerResult, runAttempts>>

\* What no step of analyze_with_openai assigns: the state of main and of
\* another run.
outerVars == <<mainPc, env, debug, exitStatus, leagueRequested, printed, current, other, handlerCall, handlerResult>>

\* What analyze_with_openai and responses_with_backoff assign.
driverVars == <<pc, req, response, function_calls_to_execute, function_call_outputs, idx,
                attempt_number, hostCalls, hostFailures, requests, invoked, returnValue,
                error, sleep, runAttempts>>

\* The settings main reads from the environment, and those it hands to int().
Settings == {"ESPN_S2", "SWID", "OPENAI_API_KEY", "LEAGUE_ID", "YEAR"}
NumericSettings == {"LEAGUE_ID", "YEAR"}

\* os.getenv(k): None when the variable is not set, else its text.
EnvValues(k) ==
  IF k \in NumericSettings THEN {None, Some(""), Some("1"), Some("x")}
  ELSE {None, Some(""), Some("set")}

\* An environment with every setting usable.
AllSet == [k \in Settings |-> IF k \in NumericSettings THEN Some("1") ELSE Some("set")]

\* No other run exists.
NoRun == [pc |-> "no run"]

Init ==
  /\ pc = "start"
  /\ req = NoRequest
  /\ response = NoResponse
  /\ function_calls_to_execute = <<>>
  /\ function_call_outputs = <<>>
  /\ idx = 0
  /\ attempt_number = 0
  /\ hostCalls = 0
  /\ hostFailures = 0
  /\ requests = 0
  /\ invoked = <<>>
  /\ returnValue = None
  /\ error = NoError
  /\ sleep = None
  /\ league = League
  /\ mainPc = "analysis"
  /\ env = AllSet
  /\ debug = FALSE
  /\ exitStatus = None
  /\ leagueRequested = TRUE
  /\ printed = None
  /\ current = 1
  /\ other = NoRun
  /\ handlerCall = None
  /\ handlerResult = None
  /\ runAttempts = None

\* Lines 212-222: the kwargs of the first call.
FirstRequest == [input |-> PromptInput, previous_response_id |-> None]

\* Lines 212-222: the first call of responses_with_backoff.
InitialRequest ==
  /\ mainPc = "analysis"
  /\ pc = "start"
  /\ pc' = "request"
  /\ req' = FirstRequest
  /\ attempt_number' = 1
  /\ hostCalls' = 0
  /\ hostFailures' = 0
  /\ sleep' = None
  /\ requests' = requests + 1
  /\ UNCHANGED <<response, function_calls_to_execute, function_call_outputs, idx,
                 invoked, returnValue, error, league, outerVars, runAttempts>>

\* One more host call of the run; None where they are not counted.
Counted(n) == IF n = None THEN None ELSE Some(n[1] + 1)

\* ShouldStop counting the attempts of the whole run, where they are counted.
ShouldStop_PerRun(attempt) ==
  IF runAttempts = None THEN attempt >= StopAfterAttempt
  ELSE runAttempts[1] + 1 >= StopAfterAttempt

\* ShouldStop giving up one attempt early.
ShouldStop_OneEarly(attempt) == attempt >= StopAfterAttempt - 1

\* stop_after_attempt(6): whether the wrapper gives up after this attempt.
ShouldStop(attempt) == attempt >= StopAfterAttempt

\* What the wrapper raises when it gives up: reraise is not set, so it is a
\* RetryError around the last attempt.
GiveUpError(e) == [type |-> "RetryError", cause |-> e]

Min(a, b) == IF a < b THEN a ELSE b
Max(a, b) == IF a > b THEN a ELSE b

\* wait_exponential(min=1, max=60) after the attempt numbered attempt: the
\* upper end of the range the delay is drawn from.
WaitHigh(attempt) == Max(Max(0, WaitMin), Min(2^(attempt - 1), WaitMax))

\* The lower end of that range: random.uniform(0, high) in the releases of
\* the retry library up to 8.2.2, random.uniform(min, high) in later ones.
WaitLows == {0, WaitMin}

\* wait_random_exponential(min=1, max=60): the delay, in seconds, drawn
\* after the attempt numbered attempt, taken at the ends of its range; 0
\* stands for any delay below one second.
WaitRange(attempt) == WaitLows \cup {WaitHigh(attempt)}

\* Lines 207-209: one attempt of the wrapper throws e; the wrapper gives up
\* or waits and tries again.
AttemptFails(e) ==
  /\ pc = "request"
  /\ hostCalls' = hostCalls + 1
  /\ hostFailures' = hostFailures + 1
  /\ IF ShouldStop(attempt_number)
     THEN /\ pc' = "raised"
          /\ error' = GiveUpError(e)
          /\ sleep' = None
          /\ UNCHANGED attempt_number
     ELSE /\ attempt_number' = attempt_number + 1
          /\ \E d \in WaitRange(attempt_number) : sleep' = Some(d)
          /\ UNCHANGED <<pc, error>>
  /\ UNCHANGED <<req, response, function_calls_to_execute, function_call_outputs, idx,
                 requests, invoked, returnValue, league, outerVars>>
  /\ runAttempts' = Counted(runAttempts)

\* Lines 207-209: one attempt of the wrapper does not throw.
AttemptSucceeds ==
  /\ pc = "request"
  /\ pc' = "attempt_ok"
  /\ hostCalls' = hostCalls + 1
  /\ UNCHANGED <<req, response, function_calls_to_execute, function_call_outputs, idx,
                 attempt_number, hostFailures, requests, invoked, returnValue, error,
                 sleep, league, outerVars>>
  /\ runAttempts' = Counted(runAttempts)

\* Lines 207-209: the wrapper hands the attempt's value to its caller; the
\* call's arguments and retry state end with it.
WrapperReturns ==
  /\ pc = "attempt_ok"
  /\ pc' = "returning"
  /\ req' = NoRequest
  /\ attempt_number' = 0
  /\ hostCalls' = 0
  /\ hostFailures' = 0
  /\ sleep' = None
  /\ UNCHANGED <<response, function_calls_to_execute, function_call_outputs, idx,
                 requests, invoked, returnValue, error, league, outerVars, runAttempts>>

\* Lines 212/306 and 225-252: the value r of the call is bound to response;
\* the loop scans r.output and either leaves the loop or starts the dispatch
\* loop on the collected calls.
ResponseReceived(r) ==
  /\ pc = "returning"
  /\ response' = r
  /\ function_calls_to_execute' = CollectFunctionCalls(r.output)
  /\ invoked' = <<>>
  /\ IF function_calls_to_execute' = <<>>
     THEN /\ pc' = "extract"
          /\ UNCHANGED <<function_call_outputs, idx>>
     ELSE /\ pc' = "dispatch"
          /\ function_call_outputs' = <<>>
          /\ idx' = 1
  /\ UNCHANGED <<req, attempt_number, hostCalls, hostFailures, requests, returnValue, error,
                 sleep, league, outerVars, runAttempts>>

\* Lines 253-303: one iteration of the dispatch loop.
DispatchToolCall(providerFails) ==
  /\ pc = "dispatch"
  /\ idx <= Len(function_calls_to_execute)
  /\ LET tool_call == function_calls_to_execute[idx]
         outcome == ExecuteTool(league, tool_call.name, ParseToolArgs(tool_call), providerFails)
     IN /\ invoked' = invoked \o [k \in DOMAIN outcome.calls |->
                                     [call_id |-> tool_call.call_id, call |-> outcome.calls[k]]]
        /\ league' = LeagueAfter(league, outcome.calls)
        /\ IF outcome.raised
           THEN /\ pc' = "raised"
                /\ error' = [type |-> outcome.exception, cause |-> ""]
                /\ UNCHANGED <<function_call_outputs, idx>>
           ELSE /\ function_call_outputs' =
                     AppendOutput(function_call_outputs, tool_call, outcome)
                /\ idx' = idx + 1
                /\ UNCHANGED <<pc, error>>
  /\ UNCHANGED <<req, response, function_calls_to_execute, attempt_number, hostCalls,
                 hostFailures, requests, returnValue, sleep, outerVars, runAttempts>>

\* ContinuationRequest without the reference to the previous response.
ContinuationRequest_NoReference(resp, outputs) ==
  [input |-> OutputsInput(outputs), previous_response_id |-> None]

\* Lines 306-317: the kwargs of the continuation call.
ContinuationRequest(resp, outputs) ==
  [input |-> OutputsInput(outputs), previous_response_id |-> Some(resp.id)]

\* Resubmit issued from inside the dispatch loop, before its last iteration.
Resubmit_BeforeLoopEnds ==
  /\ pc = "dispatch"
  /\ pc' = "request"
  /\ req' = ContinuationRequest(response, function_call_outputs)
  /\ attempt_number' = 1
  /\ hostCalls' = 0
  /\ hostFailures' = 0
  /\ sleep' = None
  /\ requests' = requests + 1
  /\ UNCHANGED <<response, function_calls_to_execute, function_call_outputs, idx,
                 invoked, returnValue, error, league, outerVars, runAttempts>>

\* Lines 305-317: the continuation call of responses_with_backoff.
Resubmit ==
  /\ pc = "dispatch"
  /\ idx > Len(function_calls_to_execute)
  /\ pc' = "request"
  /\ req' = ContinuationRequest(response, function_call_outputs)
  /\ attempt_number' = 1
  /\ hostCalls' = 0
  /\ hostFailures' = 0
  /\ sleep' = None
  /\ requests' = requests + 1
  /\ UNCHANGED <<response, function_calls_to_execute, function_call_outputs, idx,
                 invoked, returnValue, error, league, outerVars, runAttempts>>

\* Lines 319-336: the loop is left and the final text is returned.
ExtractText ==
  /\ pc = "extract"
  /\ pc' = "returned"
  /\ returnValue' = Some(ExtractFinalText(response))
  /\ UNCHANGED <<req, response, function_calls_to_execute, function_call_outputs, idx,
                 attempt_number, hostCalls, hostFailures, requests, invoked, error,
                 sleep, league, outerVars, runAttempts>>

\* The host's response holds function_call items. output_text is read only
\* from a response without them, so it is left out here. The host stops
\* asking for tools with its MaxRequests-th response.
HostAsksForTools ==
  /\ requests < MaxRequests
  /\ \E o \in ToolOutputs : ResponseReceived(HostResponse(requests, o, None))

\* The host's response holds no function_call item.
HostAnswers ==
  \E o \in FinalOutputs, t \in OutputTexts :
    ResponseReceived(HostResponse(requests, o, t))

Next ==
  \/ InitialRequest
  \/ \E e \in HostErrors : AttemptFails(e)
  \/ AttemptSucceeds
  \/ WrapperReturns
  \/ HostAsksForTools
  \/ HostAnswers
  \/ \E providerFails \in BOOLEAN : DispatchToolCall(providerFails)
  \/ Resubmit
  \/ ExtractText

Spec == Init /\ [][Next]_vars

\* The host's response holds one function_call item, of any tool with any
\* argument string.
HostAsksOneTool ==
  /\ requests < MaxRequests
  /\ \E x \in WideShapes :
       ResponseReceived(HostResponse(requests, <<FunctionCallItem(x[1], x[2])>>, None))

\* analyze_with_openai against a host that asks for one tool per turn.
NextDispatch ==
  \/ InitialRequest
  \/ \E e \in HostErrors : AttemptFails(e)
  \/ AttemptSucceeds
  \/ WrapperReturns
  \/ HostAsksOneTool
  \/ HostAnswers
  \/ \E providerFails \in BOOLEAN : DispatchToolCall(providerFails)
  \/ Resubmit
  \/ ExtractText

SpecDispatch == Init /\ [][NextDispatch]_vars

\* ------------------------------------------------------------- two runs
\* The local state of the executing call of analyze_with_openai: its local
\* variables and the retry state of its wrapper.
RunState ==
  [pc |-> pc, req |-> req, response |-> response,
   function_calls_to_execute |-> function_calls_to_execute,
   function_call_outputs |-> function_call_outputs, idx |-> idx,
   attempt_number |-> attempt_number, hostCalls |-> hostCalls,
   hostFailures |-> hostFailures, requests |-> requests, invoked |-> invoked,
   returnValue |-> returnValue, error |-> error, sleep |-> sleep]

\* The local state of a call that has not run yet.
FreshRun ==
  [pc |-> "start", req |-> NoRequest, response |-> NoResponse,
   function_calls_to_execute |-> <<>>, function_call_outputs |-> <<>>, idx |-> 0,
   attempt_number |-> 0, hostCalls |-> 0, hostFailures |-> 0, requests |-> 0,
   invoked |-> <<>>, returnValue |-> None, error |-> NoError, sleep |-> None]

\* ResumedRun with function_call_outputs one list that both runs use.
ResumedRun_SharedOutputs(saved, running) ==
  [saved EXCEPT !.function_call_outputs = running.function_call_outputs]

\* What a run finds when it is resumed, given what it left (saved) and the
\* state of the run that ran meanwhile (running): every variable of
\* analyze_with_openai is a local of the call, and responses_with_backoff with
\* its retry state is a closure the call creates (lines 206-209), so the run
\* finds all of it as it left it.
ResumedRun(saved, running) == saved

\* The scheduler suspends the executing run and resumes the other one.
Switch ==
  LET r == ResumedRun(other, RunState)
  IN /\ other' = RunState
     /\ current' = 3 - current
     /\ pc' = r.pc
     /\ req' = r.req
     /\ response' = r.response
     /\ function_calls_to_execute' = r.function_calls_to_execute
     /\ function_call_outputs' = r.function_call_outputs
     /\ idx' = r.idx
     /\ attempt_number' = r.attempt_number
     /\ hostCalls' = r.hostCalls
     /\ hostFailures' = r.hostFailures
     /\ requests' = r.requests
     /\ invoked' = r.invoked
     /\ returnValue' = r.returnValue
     /\ error' = r.error
     /\ sleep' = r.sleep
     /\ UNCHANGED <<league, mainPc, env, debug, exitStatus, leagueRequested, printed,
                    handlerCall, handlerResult, runAttempts>>

\* The responses the host gives to two interleaved runs.
TwoRunToolOutputs ==
  { << FunctionCallItem("get_waiver_wire", "{\"position\": \"QB\", \"size\": 1}") >>,
    << WebSearchItem, FunctionCallItem("get_team_details", "{\"team_id\": 1}") >> }
TwoRunFinalOutputs ==
  { << >>, << MessageItem(<< [type |-> "output_text", text |-> "done"] >>) >> }

TwoRunHostAsksForTools ==
  /\ requests < MaxRequests
  /\ \E o \in TwoRunToolOutputs : ResponseReceived(HostResponse(requests, o, None))

TwoRunHostAnswers ==
  \E o \in TwoRunFinalOutputs : ResponseReceived(HostResponse(requests, o, None))

\* A step of the executing run.
RunStep ==
  \/ InitialRequest
  \/ \E e \in HostErrors : AttemptFails(e)
  \/ AttemptSucceeds
  \/ WrapperReturns
  \/ TwoRunHostAsksForTools
  \/ TwoRunHostAnswers
  \/ \E providerFails \in BOOLEAN : DispatchToolCall(providerFails)
  \/ Resubmit
  \/ ExtractText

\* Two calls of analyze_with_openai on the same league object, one executing
\* and one suspended.
InitTwoRuns ==
  /\ pc = "start"
  /\ req = NoRequest
  /\ response = NoResponse
  /\ function_calls_to_execute = <<>>
  /\ function_call_outputs = <<>>
  /\ idx = 0
  /\ attempt_number = 0
  /\ hostCalls = 0
  /\ hostFailures = 0
  /\ requests = 0
  /\ invoked = <<>>
  /\ returnValue = None
  /\ error = NoError
  /\ sleep = None
  /\ league = League
  /\ mainPc = "analysis"
  /\ env = AllSet
  /\ debug = FALSE
  /\ exitStatus = None
  /\ leagueRequested = TRUE
  /\ printed = None
  /\ current = 1
  /\ other = FreshRun
  /\ handlerCall = None
  /\ handlerResult = None
  /\ runAttempts = None

NextTwoRuns == RunStep \/ Switch

SpecTwoRuns == InitTwoRuns /\ [][NextTwoRuns]_vars

\* ------------------------------------------- host calls counted per run
\* A run of analyze_with_openai whose host calls are counted from its start.
InitBudget ==
  /\ pc = "start"
  /\ req = NoRequest
  /\ response = NoResponse
  /\ function_calls_to_execute = <<>>
  /\ function_call_outputs = <<>>
  /\ idx = 0
  /\ attempt_number = 0
  /\ hostCalls = 0
  /\ hostFailures = 0
  /\ requests = 0
  /\ invoked = <<>>
  /\ returnValue = None
  /\ error = NoError
  /\ sleep = None
  /\ league = League
  /\ mainPc = "analysis"
  /\ env = AllSet
  /\ debug = FALSE
  /\ exitStatus = None
  /\ leagueRequested = TRUE
  /\ printed = None
  /\ current = 1
  /\ other = NoRun
  /\ handlerCall = None
  /\ handlerResult = None
  /\ runAttempts = Some(0)

SpecBudget == InitBudget /\ [][RunStep]_vars

\* ------------------------------------------------- direct handler calls
\* Free agents the provider can return: two positions several times, a
\* projection at the 2.0 threshold and just above it, and a tie.
PlayerPool ==
  { [playerId |-> 21, position |-> "QB", projected_points |-> 1250],
    [playerId |-> 22, position |-> "RB", projected_points |-> 200],
    [playerId |-> 23, position |-> "WR", projected_points |-> 201],
    [playerId |-> 24, position |-> "QB", projected_points |-> 1256],
    [playerId |-> 25, position |-> "QB", projected_points |-> 1250],
    [playerId |-> 26, position |-> "D/ST", projected_points |-> 904] }

\* A provider list longer than both fetch sizes, better players last.
LongFreeAgents ==
  [i \in 1..(FetchSizeFiltered + 1) |->
     [playerId |-> 100 + i,
      position |-> IF i % 2 = 0 THEN "QB" ELSE "RB",
      projected_points |-> 300 + 10 * i]]

\* The provider's lists: every list of up to MaxAgents different players of
\* the pool, and the long one.
FreeAgentLists ==
  { f \in UNION { [1..n -> PlayerPool] : n \in 0..MaxAgents } :
      \A i, j \in DOMAIN f : i # j => f[i] # f[j] }
  \cup {LongFreeAgents}

\* The position arguments of a call: none, empty, valid ones and one that
\* is not a position.
WaiverPositions ==
  {None, Some(""), Some("QB"), Some("RB"), Some("D/ST"), Some("DST"), Some("XX")}

\* get_waiver_wire_for_tool is about to be called on some league.
InitWaiver ==
  /\ pc = "start"
  /\ req = NoRequest
  /\ response = NoResponse
  /\ function_calls_to_execute = <<>>
  /\ function_call_outputs = <<>>
  /\ idx = 0
  /\ attempt_number = 0
  /\ hostCalls = 0
  /\ hostFailures = 0
  /\ requests = 0
  /\ invoked = <<>>
  /\ returnValue = None
  /\ error = NoError
  /\ sleep = None
  /\ league \in { [League EXCEPT !.free_agents = f] : f \in FreeAgentLists }
  /\ mainPc = "analysis"
  /\ env = AllSet
  /\ debug = FALSE
  /\ exitStatus = None
  /\ leagueRequested = TRUE
  /\ printed = None
  /\ current = 1
  /\ other = NoRun
  /\ handlerCall = None
  /\ handlerResult = None
  /\ runAttempts = None

\* get_waiver_wire_for_tool(league, position, size) is called and returns or
\* raises.
CallWaiver(position, size, providerFails) ==
  /\ handlerCall = None
  /\ handlerCall' = Some([position |-> position, size |-> size,
                          providerFails |-> providerFails])
  /\ handlerResult' = Some(get_waiver_wire_for_tool(league, position, size, providerFails))
  /\ UNCHANGED <<driverVars, league, mainPc, env, debug, exitStatus, leagueRequested,
                 printed, current, other>>

NextWaiver ==
  \E position \in WaiverPositions, size \in SchemaMinSize..SchemaMaxSize,
     providerFails \in BOOLEAN :
    CallWaiver(position, size, providerFails)

SpecWaiver == InitWaiver /\ [][NextWaiver]_vars

\* ----------------------------------------------------------------- main
\* The league variable before League(...) has returned.
NoLeague == [current_week |-> -1, teams |-> <<>>, free_agents |-> <<>>]

\* IsMissing testing only for a variable that is not set.
IsMissing_OnlyUnset(v) == v = None

\* "if not espn_s2": the variable is not set or is empty.
IsMissing(v) == v = None \/ v = Some("")

\* int(v) raises ValueError.
IntRaises(v) == v \notin {Some("1")}

\* Lines 354-379: main gets past its checks of the environment.
SettingsOk(e) ==
  /\ \A k \in Settings : ~IsMissing(e[k])
  /\ \A k \in NumericSettings : ~IntRaises(e[k])

Exit(status) ==
  /\ mainPc' = "exited"
  /\ exitStatus' = Some(status)

\* Lines 354-379: sys.exit(1) on a missing setting, ValueError out of int()
\* (the interpreter exits with status 1), or on to the try block.
MainReadSettings ==
  /\ mainPc = "start"
  /\ IF SettingsOk(env)
     THEN mainPc' = "connect" /\ UNCHANGED exitStatus
     ELSE Exit(1)
  /\ UNCHANGED <<driverVars, league, env, debug, leagueRequested, printed, current, other, handlerCall, handlerResult>>

\* Lines 384-396 and 441-447: League(...) asks the provider; it throws, which
\* the except clause turns into sys.exit(1), or returns the league in the
\* given week.
MainConnect(providerFails, week) ==
  /\ mainPc = "connect"
  /\ leagueRequested' = TRUE
  /\ IF providerFails
     THEN Exit(1) /\ UNCHANGED league
     ELSE /\ mainPc' = "connected"
          /\ league' = [League EXCEPT !.current_week = week]
          /\ UNCHANGED exitStatus
  /\ UNCHANGED <<driverVars, env, debug, printed, current, other, handlerCall, handlerResult>>

\* Lines 399-413: sys.exit(0) in pre-season; SystemExit is no Exception, so
\* the except clause lets it through.
MainPreseason ==
  /\ mainPc = "connected"
  /\ league.current_week = 0
  /\ Exit(0)
  /\ UNCHANGED <<driverVars, league, env, debug, leagueRequested, printed, current, other, handlerCall, handlerResult>>

\* What main prints in debug mode and in analysis mode.
PrintedPrompt == Some([kind |-> "prompt", text |-> ""])
PrintedAnalysis(text) == Some([kind |-> "analysis", text |-> text])

\* MainAnalyze taking the analysis branch whatever args.debug is.
MainAnalyze_IgnoresDebug ==
  /\ mainPc = "connected"
  /\ league.current_week # 0
  /\ mainPc' = "analysis"
  /\ UNCHANGED <<driverVars, league, env, debug, exitStatus, leagueRequested, printed,
                 current, other, handlerCall, handlerResult>>

\* Lines 416-428 and 438-439: in debug mode the prompt is built and printed
\* and main returns.
MainDebug ==
  /\ mainPc = "connected"
  /\ league.current_week # 0
  /\ debug
  /\ printed' = PrintedPrompt
  /\ Exit(0)
  /\ UNCHANGED <<driverVars, league, env, debug, leagueRequested, current, other, handlerCall, handlerResult>>

\* Lines 416-435: otherwise main calls analyze_with_openai.
MainAnalyze ==
  /\ mainPc = "connected"
  /\ league.current_week # 0
  /\ ~debug
  /\ mainPc' = "analysis"
  /\ UNCHANGED <<driverVars, league, env, debug, exitStatus, leagueRequested, printed,
                 current, other, handlerCall, handlerResult>>

\* Lines 435-439: analyze_with_openai returned; main prints its value and
\* returns.
MainPrintsAnalysis ==
  /\ mainPc = "analysis"
  /\ pc = "returned"
  /\ printed' = PrintedAnalysis(returnValue[1])
  /\ Exit(0)
  /\ UNCHANGED <<driverVars, league, env, debug, leagueRequested, current, other, handlerCall, handlerResult>>

\* Lines 441-447: an exception left analyze_with_openai; sys.exit(1).
MainCatches ==
  /\ mainPc = "analysis"
  /\ pc = "raised"
  /\ Exit(1)
  /\ UNCHANGED <<driverVars, league, env, debug, leagueRequested, printed, current, other, handlerCall, handlerResult>>

\* The process starts: any environment, with or without --debug.
InitMain ==
  /\ pc = "start"
  /\ req = NoRequest
  /\ response = NoResponse
  /\ function_calls_to_execute = <<>>
  /\ function_call_outputs = <<>>
  /\ idx = 0
  /\ attempt_number = 0
  /\ hostCalls = 0
  /\ hostFailures = 0
  /\ requests = 0
  /\ invoked = <<>>
  /\ returnValue = None
  /\ error = NoError
  /\ sleep = None
  /\ league = NoLeague
  /\ mainPc = "start"
  /\ env \in { e \in [Settings -> UNION { EnvValues(k) : k \in Settings }] :
                 \A k \in Settings : e[k] \in EnvValues(k) }
  /\ debug \in BOOLEAN
  /\ exitStatus = None
  /\ leagueRequested = FALSE
  /\ printed = None
  /\ current = 1
  /\ other = NoRun
  /\ handlerCall = None
  /\ handlerResult = None
  /\ runAttempts = None

NextMain ==
  \/ MainReadSettings
  \/ \E providerFails \in BOOLEAN, week \in {0, 1} : MainConnect(providerFails, week)
  \/ MainPreseason
  \/ MainDebug
  \/ MainAnalyze
  \/ MainPrintsAnalysis
  \/ MainCatches
  \/ Next

SpecMain == InitMain /\ [][NextMain]_vars

TypeOK ==
  /\ pc \in {"start", "request", "attempt_ok", "returning", "dispatch", "extract", "returned", "raised"}
  /\ attempt_number \in 0..StopAfterAttempt
  /\ requests \in 0..MaxRequests

\* ------------------------------------------------------------------ claims
\* The wrapper call in progress is a continuation, so req.input is the list
\* the turn resubmits.
Resubmitting == pc \in {"request", "attempt_ok"} /\ req.input.kind = "outputs"

\* How many records of outputs answer call_id.
AnswersTo(outputs, call_id) ==
  Cardinality({ j \in DOMAIN outputs : outputs[j].call_id = call_id })

\* json.dumps of a dict with an "error" key.
IsErrorPayload(output) == "error" \in DOMAIN output.text

\* C1: in every turn, each function_call item collected from the response
\* has exactly one function_call_output with its call_id in the input of the
\* following resubmission.
C1_EveryCallAnsweredOnce ==
  Resubmitting =>
    \A i \in DOMAIN function_calls_to_execute :
      AnswersTo(req.input.items, function_calls_to_execute[i].call_id) = 1

\* C2: every function_call item whose name is not a locally handled tool
\* gets, once the dispatch loop has passed it, a result for its call_id whose
\* payload is an error structure, and the loop does not raise on it.
C2_UnknownToolGetsErrorPayload ==
  /\ pc = "dispatch" =>
       \A i \in 1..(idx - 1) :
         function_calls_to_execute[i].name \notin HandledTools =>
           \E j \in DOMAIN function_call_outputs :
             /\ function_call_outputs[j].call_id = function_calls_to_execute[i].call_id
             /\ IsErrorPayload(function_call_outputs[j].output)
  /\ pc = "raised" /\ idx \in DOMAIN function_calls_to_execute =>
       function_calls_to_execute[idx].name \in HandledTools

\* C3: no iteration of the dispatch loop raises, whatever the tool name, the
\* argument string and the behaviour of the handler and the provider.
C3_DispatchNeverRaises == [][pc = "dispatch" => pc' # "raised"]_vars

\* The parameters a handler sees when every argument is absent.
AbsentArguments(call) ==
  /\ call.position = None
  /\ call.size = (IF call.handler = "get_waiver_wire" THEN Some(DispatchDefaultSize) ELSE None)
  /\ call.team_id = None
  /\ call.player_id = None

\* C4: a function_call item whose arguments cannot be parsed is dispatched
\* with every parameter absent, the iteration does not raise, and it adds a
\* result for that call.
C4_UnparsableArgumentsStillAnswered ==
  [][(/\ pc = "dispatch"
      /\ idx \in DOMAIN function_calls_to_execute
      /\ ~JsonLoads(function_calls_to_execute[idx].arguments).ok)
     => /\ pc' # "raised"
        /\ Len(function_call_outputs') = Len(function_call_outputs) + 1
        /\ function_call_outputs'[Len(function_call_outputs')].call_id
             = function_calls_to_execute[idx].call_id
        /\ \A k \in (Len(invoked) + 1)..Len(invoked') : AbsentArguments(invoked'[k].call)]_vars

InWrapper == pc \in {"request", "attempt_ok"}

\* C5: once a response without function_call items has been received the
\* run leaves the loop and returns text; a wrapper call after the first is
\* made only for a response that held function_call items.
C5_NoCallsEndsTheRun ==
  /\ (response.id >= 1 /\ ~HasFunctionCall(response.output)) => pc \in {"extract", "returned"}
  /\ (requests > 1 /\ (InWrapper \/ pc = "returning")) => HasFunctionCall(response.output)
  /\ pc = "returned" => returnValue # None

\* A run returned on a response holding two web_search_call items.
C5_Witness ==
  /\ pc = "returned"
  /\ Cardinality({ i \in DOMAIN response.output :
                     response.output[i].type = "web_search_call" }) >= 2

RECURSIVE IsSubsequence(_, _)
\* a is b with some elements left out.
IsSubsequence(a, b) ==
  IF a = <<>> THEN TRUE
  ELSE IF b = <<>> THEN FALSE
  ELSE IF Head(a) = Head(b) THEN IsSubsequence(Tail(a), Tail(b))
  ELSE IsSubsequence(a, Tail(b))

CallIdsOf(records) == [i \in DOMAIN records |-> records[i].call_id]

\* C6: within a turn the handlers are invoked in the order of the
\* function_call items of response.output, and the function_call_output
\* records, also those of the resubmitted input, keep that order.
C6_OrderPreserved ==
  LET inOutput == CallIdsOf(SelectSeq(response.output,
                                      LAMBDA item: item.type = "function_call"))
  IN /\ pc \in {"dispatch", "request", "attempt_ok"} =>
          /\ IsSubsequence(CallIdsOf(invoked), inOutput)
          /\ IsSubsequence(CallIdsOf(function_call_outputs), inOutput)
     /\ Resubmitting => IsSubsequence(CallIdsOf(req.input.items), inOutput)

\* A turn resubmits the results of two handler invocations.
C6_Witness ==
  /\ Resubmitting
  /\ Len(req.input.items) = 2
  /\ Len(invoked) = 2
  /\ req.input.items[1].call_id # req.input.items[2].call_id

\* C7: a wrapper call whose first k attempts fail and whose next attempt
\* succeeds (k <= 5) returns after k + 1 attempts without raising; a call
\* whose attempts all fail raises after 6 attempts; there is no 7th attempt.
C7_AttemptBudget ==
  /\ hostCalls <= StopAfterAttempt
  /\ pc = "request" => hostFailures = hostCalls /\ hostFailures < StopAfterAttempt
  /\ pc = "attempt_ok" =>
       /\ hostFailures <= StopAfterAttempt - 1
       /\ hostCalls = hostFailures + 1
       /\ error = NoError
  /\ (pc = "raised" /\ error.type = "RetryError") =>
       hostCalls = StopAfterAttempt /\ hostFailures = StopAfterAttempt

\* Five attempts failed and the sixth succeeded.
C7_Witness ==
  pc = "attempt_ok" /\ hostFailures = StopAfterAttempt - 1 /\ hostCalls = StopAfterAttempt

\* C8: when all 6 attempts of a wrapper call fail, the error that leaves
\* analyze_with_openai is the exception the last attempt raised, not one
\* wrapping it.
C8_LastExceptionReraised ==
  (pc = "raised" /\ hostFailures = StopAfterAttempt) => error.type \in HostErrors

\* C9: the first request carries the prompt and no previous-response
\* reference; every later request carries the id of the response received
\* just before it, and as input only function_call_output records answering
\* function_call items of that response.
C9_RequestShape ==
  InWrapper =>
    IF requests = 1
    THEN req.input.kind = "prompt" /\ req.previous_response_id = None
    ELSE /\ req.previous_response_id = Some(response.id)
         /\ response.id = requests - 1
         /\ req.input.kind = "outputs"
         /\ \A j \in DOMAIN req.input.items :
              /\ req.input.items[j].type = "function_call_output"
              /\ \E i \in DOMAIN response.output :
                   /\ response.output[i].type = "function_call"
                   /\ response.output[i].call_id = req.input.items[j].call_id

\* The second continuation request of a run, carrying a result.
C9_Witness ==
  pc = "request" /\ requests = 3 /\ Len(req.input.items) >= 1

\* The text fragments of the first n items of output, in order, built from
\* the end.
RECURSIVE FragmentsUpTo(_, _)
FragmentsUpTo(output, n) ==
  IF n = 0 THEN <<>>
  ELSE FragmentsUpTo(output, n - 1) \o
       (IF output[n].type = "message"
        THEN SelectSeq(output[n].content, LAMBDA c: c.type = "output_text")
        ELSE <<>>)

RECURSIVE JoinTexts(_, _)
JoinTexts(fragments, n) ==
  IF n = 0 THEN "" ELSE JoinTexts(fragments, n - 1) \o fragments[n].text

JoinedMessageText(resp) ==
  LET fragments == FragmentsUpTo(resp.output, Len(resp.output))
  IN JoinTexts(fragments, Len(fragments))

\* C10 as stated: the returned value is output_text when the response
\* exposes one, and otherwise the concatenation of the message fragments.
C10_ReturnsOutputTextOrConcatenation ==
  pc = "returned" =>
    returnValue = (IF response.output_text # None
                   THEN response.output_text
                   ELSE Some(JoinedMessageText(response)))

\* C10 amended: the returned value is taken from the final response: its
\* output_text when it exposes a non-empty one; otherwise the concatenation,
\* in output order, of the text fragments of its message items; and the
\* fixed text "Analysis complete." when that concatenation is empty.
C10_ReturnsTextOfFinalResponse ==
  pc = "returned" =>
    /\ ~HasFunctionCall(response.output)
    /\ returnValue =
         (IF response.output_text # None /\ response.output_text # Some("")
          THEN response.output_text
          ELSE IF JoinedMessageText(response) # ""
               THEN Some(JoinedMessageText(response))
               ELSE Some("Analysis complete."))

\* A run returned the fragments of two message items, in output order.
C10_Witness ==
  /\ pc = "returned"
  /\ response.output_text = None
  /\ Len(response.output) = 2
  /\ returnValue = Some("done!")

\* The function_call items of output, in order.
FunctionCallsIn(output) == SelectSeq(output, LAMBDA item: item.type = "function_call")

\* records carries only call_ids of function_call items of output.
AnswerFunctionCalls(records, output) ==
  \A k \in DOMAIN records :
    \E i \in DOMAIN output :
      /\ output[i].type = "function_call"
      /\ output[i].call_id = records[k].call_id

\* C11: a web_search_call item of a response is never collected for
\* dispatch, so no handler is invoked for it, no function_call_output record
\* is built for it and no error that leaves the run comes from it, in a turn
\* with function_call items as in one without.
C11_WebSearchNeverDispatched ==
  LET calls == FunctionCallsIn(response.output)
  IN /\ function_calls_to_execute = calls
     /\ pc \notin {"extract", "returned"} =>
          /\ AnswerFunctionCalls(invoked, response.output)
          /\ AnswerFunctionCalls(function_call_outputs, response.output)
          /\ Len(invoked) <= Len(calls)
          /\ Len(function_call_outputs) <= Len(calls)
     /\ (pc = "raised" /\ error.type # "RetryError") =>
          /\ idx \in DOMAIN calls
          /\ calls[idx].type = "function_call"
     /\ (response.id >= 1 /\ calls = <<>>) => invoked = <<>> /\ pc # "raised"

\* A turn whose response held a web_search_call item before a function_call
\* item resubmits one result.
C11_Witness ==
  /\ Resubmitting
  /\ Len(response.output) = 2
  /\ response.output[1].type = "web_search_call"
  /\ response.output[2].type = "function_call"
  /\ Len(req.input.items) = 1

\* C12: a run of analyze_with_openai ends with an error only when a wrapper
\* call has used up its 6 attempts; nothing the dispatch loop does ends it.
C12_OnlyRetryExhaustionRaises ==
  pc = "raised" => error.type = "RetryError" /\ hostFailures = StopAfterAttempt

\* The function_call item of the current turn that call_id names.
ToolCallOf(call_id) ==
  function_calls_to_execute[CHOOSE i \in DOMAIN function_calls_to_execute :
                              function_calls_to_execute[i].call_id = call_id]

\* C13: when the parsed arguments of a get_waiver_wire call omit position
\* the handler is invoked with position None, and when they omit size it is
\* invoked with the default of the tool's schema, not with the default of
\* the handler's signature.
C13_OmittedArgumentsGetSchemaDefaults ==
  \A k \in DOMAIN invoked :
    invoked[k].call.handler = "get_waiver_wire" =>
      LET tool_args == ParseToolArgs(ToolCallOf(invoked[k].call_id)).value
      IN /\ tool_args.position = None => invoked[k].call.position = None
         /\ tool_args.size = None =>
              /\ invoked[k].call.size = Some(SchemaDefaultSize)
              /\ invoked[k].call.size # Some(HandlerDefaultSize)

\* get_waiver_wire was invoked for a call whose arguments name neither
\* position nor size.
C13_Witness ==
  \E k \in DOMAIN invoked :
    /\ invoked[k].call.handler = "get_waiver_wire"
    /\ ParseToolArgs(ToolCallOf(invoked[k].call_id)).value = EmptyDict
    /\ invoked[k].call.size = Some(SchemaDefaultSize)
    /\ invoked[k].call.position = None

TeamIds(snapshot) == { snapshot.teams[t].team_id : t \in DOMAIN snapshot.teams }
PlayerIds(snapshot) ==
  UNION { { snapshot.teams[t].roster[p].playerId : p \in DOMAIN snapshot.teams[t].roster } :
            t \in DOMAIN snapshot.teams }

\* The invocation is of get_team_details or get_player_stats with an
\* identifier that is None or that names nothing in the league.
UnmatchedLookup(call) ==
  \/ /\ call.handler = "get_team_details"
     /\ (call.team_id = None \/ call.team_id[1] \notin TeamIds(league))
  \/ /\ call.handler = "get_player_stats"
     /\ (call.player_id = None \/ call.player_id[1] \notin PlayerIds(league))

\* records holds an error payload for call_id.
ErrorAnswer(records, call_id) ==
  \E j \in DOMAIN records :
    /\ records[j].call_id = call_id
    /\ IsErrorPayload(records[j].output)

\* C14: get_team_details and get_player_stats invoked with an identifier
\* that is None or matches nothing do not raise; they return a dict with an
\* "error" key, and that dict is the result recorded and resubmitted for the
\* call.
C14_UnmatchedLookupReturnsError ==
  \A k \in DOMAIN invoked :
    UnmatchedLookup(invoked[k].call) =>
      /\ pc # "raised" \/ error.type = "RetryError"
      /\ pc \in {"dispatch", "request", "attempt_ok", "raised"} =>
           ErrorAnswer(function_call_outputs, invoked[k].call_id)
      /\ Resubmitting => ErrorAnswer(req.input.items, invoked[k].call_id)

\* The result of get_team_details for a team id no team has is being
\* resubmitted.
C14_Witness ==
  /\ Resubmitting
  /\ Len(invoked) = 1
  /\ invoked[1].call.handler = "get_team_details"
  /\ invoked[1].call.team_id = Some(9)
  /\ ErrorAnswer(req.input.items, invoked[1].call_id)

\* C15: get_waiver_wire_for_tool is never invoked with a size outside the
\* schema's minimum..maximum, nor with a position outside the schema's enum.
C15_ArgumentsValidatedAgainstSchema ==
  \A k \in DOMAIN invoked :
    invoked[k].call.handler = "get_waiver_wire" =>
      /\ invoked[k].call.size[1] \in SchemaMinSize..SchemaMaxSize
      /\ invoked[k].call.position = None \/ invoked[k].call.position[1] \in SchemaPositions

\* The function_call items that call_id a and call_id b name ask for the
\* same tool with the same argument string.
SameToolCall(a, b) ==
  /\ ToolCallOf(a).name = ToolCallOf(b).name
  /\ ToolCallOf(a).arguments = ToolCallOf(b).arguments

C19_DebugIssuesNoHostRequest ==
  debug =>
    /\ mainPc # "analysis"
    /\ pc = "start"
    /\ requests = 0
    /\ hostCalls = 0
    /\ printed \in {None, PrintedPrompt}
    /\ (exitStatus = Some(0) /\ league.current_week # 0) => printed = PrintedPrompt

\* A debug run has printed the prompt and ended.
C19_Witness ==
  /\ debug
  /\ printed = PrintedPrompt
  /\ exitStatus = Some(0)
  /\ requests = 0

\* One of the five settings is not set or is empty.
SettingMissing == \E k \in Settings : env[k] \in {None, Some("")}

\* C20: with a setting missing main exits with status 1 before it contacts
\* the league provider or the model host; an exception out of the league
\* connection or out of the analysis ends the process with status 1; status
\* 0 is that of the pre-season path, of a debug run that printed the prompt
\* and of an analysis run that printed the analysis.
C20_ExitStatus ==
  /\ exitStatus \in {None, Some(0), Some(1)}
  /\ (mainPc = "exited") <=> (exitStatus # None)
  /\ SettingMissing =>
       /\ mainPc \in {"start", "exited"}
       /\ ~leagueRequested
       /\ requests = 0
       /\ mainPc = "exited" => exitStatus = Some(1)
  /\ (mainPc = "exited" /\ leagueRequested /\ league = NoLeague) => exitStatus = Some(1)
  /\ (mainPc = "exited" /\ pc = "raised") => exitStatus = Some(1)
  /\ exitStatus = Some(0) =>
       \/ league.current_week = 0 /\ printed = None /\ requests = 0
       \/ debug /\ printed = PrintedPrompt /\ requests = 0
       \/ ~debug /\ pc = "returned" /\ printed = PrintedAnalysis(returnValue[1])

\* The wrapper gave up inside the analysis and the process ended with
\* status 1.
C20_Witness ==
  /\ mainPc = "exited"
  /\ pc = "raised"
  /\ error.type = "RetryError"
  /\ exitStatus = Some(1)

C21_StrictlySequential ==
  [][/\ requests' # requests =>
          /\ requests' = requests + 1
          /\ ~InWrapper
          /\ pc' = "request"
     /\ hostCalls' > hostCalls =>
          /\ pc = "request"
          /\ hostCalls' = hostCalls + 1
     /\ (invoked' # invoked /\ invoked' # <<>>) =>
          /\ pc = "dispatch"
          /\ ~InWrapper
          /\ pc' \in {"dispatch", "raised"}
          /\ Len(invoked') = Len(invoked) + 1
     /\ (pc = "dispatch" /\ pc' = "request") =>
          /\ idx = Len(function_calls_to_execute) + 1
          /\ Len(invoked) <= Len(function_calls_to_execute)
          /\ req'.input.items = function_call_outputs
     /\ InWrapper => UNCHANGED <<invoked, function_call_outputs, idx>>]_vars

\* The continuation request of a turn with two tool calls is in progress
\* after both were dispatched.
C21_Witness ==
  /\ pc = "request"
  /\ req.input.kind = "outputs"
  /\ Len(function_calls_to_execute) = 2
  /\ idx = 3
  /\ Len(invoked) = 2
  /\ hostCalls = 0

\* The run under fair scheduling: the interpreter executes the next statement
\* of the synchronous code whenever there is one, the host answers every
\* request it is sent, and (HostAsksForTools) stops asking for tools with its
\* MaxRequests-th response.
SpecLive == Spec /\ WF_vars(Next)

\* C22: once invoked, a run whose host eventually returns a response without
\* function_call items ends, under fair scheduling, in a returned text or in
\* the fatal retry exhaustion.
C22_RunEndsInTextOrRetryExhaustion ==
  <>(\/ pc = "returned"
     \/ pc = "raised" /\ error.type = "RetryError")

\* The position a call filters by: DST is the other spelling of D/ST.
FilterPosition(position) ==
  IF position = Some("DST") THEN Some("D/ST") ELSE position

\* A returned value that lists players.
IsListing(result) ==
  /\ ~result.raised
  /\ "available_players" \in DOMAIN result.value

\* A returned error value.
IsErrorValue(result) ==
  /\ ~result.raised
  /\ "error" \in DOMAIN result.value

\* What the listing of a call filtering by pos (None: no filter) has to be,
\* given the free agents the provider holds.
ListingIsTopOfFetched(call, result, pos) ==
  LET fetched == Take(league.free_agents,
                      IF pos # None THEN FetchSizeFiltered ELSE FetchSizeAll)
      listed == result.value.available_players
      Eligible(p) == /\ p.projected_points > MinProjection
                     /\ pos = None \/ p.position = pos[1]
      Source(i) == { k \in DOMAIN fetched : fetched[k].playerId = listed[i].playerId }
      ListedIds == { listed[i].playerId : i \in DOMAIN listed }
  IN /\ Len(listed) \in 1..call.size
     /\ \A i \in DOMAIN listed :
          /\ Source(i) # {}
          /\ \A k \in Source(i) :
               /\ Eligible(fetched[k])
               /\ listed[i].position = fetched[k].position
               /\ listed[i].projected_points = Round1(fetched[k].projected_points)
     /\ \A i, j \in DOMAIN listed :
          i < j => /\ listed[i].playerId # listed[j].playerId
                   /\ listed[i].projected_points >= listed[j].projected_points
                   /\ \A k \in Source(i), l \in Source(j) :
                        fetched[k].projected_points >= fetched[l].projected_points
     /\ \A k \in DOMAIN fetched :
          (Eligible(fetched[k]) /\ fetched[k].playerId \notin ListedIds) =>
            \A i \in DOMAIN listed : \A l \in Source(i) :
              fetched[l].projected_points >= fetched[k].projected_points
     /\ result.value.count = Len(listed)

\* C23 as the text states it: a call with a valid position or none and a
\* size in 1..10 that lists players lists the top of the fetched eligible free
\* agents, and every position outside QB, RB, WR, TE, K, D/ST, DST yields an
\* error value without a provider query.
C23_EveryOtherPositionIsAnError ==
  handlerResult # None =>
    LET call == handlerCall[1]
        result == handlerResult[1]
    IN /\ ( /\ call.position = None \/ call.position[1] \in ValidPositions
            /\ call.size \in SchemaMinSize..SchemaMaxSize
            /\ IsListing(result) ) =>
              ListingIsTopOfFetched(call, result, FilterPosition(call.position))
       /\ (call.position # None /\ call.position[1] \notin ValidPositions) =>
              IsErrorValue(result)

\* C23: a call with a valid position, none or the empty string and a size in
\* 1..10 that lists players lists at most size fetched free agents, each
\* projected above 2.0 and of the position asked for, in non-increasing order
\* and with no better eligible fetched free agent left out, count being the
\* number listed; the empty string filters nothing; a non-empty position
\* outside QB, RB, WR, TE, K, D/ST, DST yields an error value whether or not
\* the provider would answer.
C23_WaiverListing ==
  handlerResult # None =>
    LET call == handlerCall[1]
        result == handlerResult[1]
        pos == IF Truthy(call.position) THEN FilterPosition(call.position) ELSE None
    IN /\ ( /\ ~Truthy(call.position) \/ call.position[1] \in ValidPositions
            /\ call.size \in SchemaMinSize..SchemaMaxSize
            /\ IsListing(result) ) =>
              /\ ListingIsTopOfFetched(call, result, pos)
              /\ result.value.position = (IF pos = None THEN "All" ELSE pos[1])
       /\ (Truthy(call.position) /\ call.position[1] \notin ValidPositions) =>
              IsErrorValue(result)
       /\ call.position = Some("") => ~IsErrorValue(result)

\* A call filtering by QB returned a full listing that leaves out an eligible
\* QB and a well-projected player of another position.
C23_Witness ==
  /\ handlerResult # None
  /\ IsListing(handlerResult[1])
  /\ handlerCall[1].position = Some("QB")
  /\ Len(handlerResult[1].value.available_players) = handlerCall[1].size
  /\ \E k \in DOMAIN league.free_agents :
       LET p == league.free_agents[k]
       IN /\ p.position = "QB"
          /\ p.projected_points > MinProjection
          /\ \A i \in DOMAIN handlerResult[1].value.available_players :
               handlerResult[1].value.available_players[i].playerId # p.playerId
  /\ \E k \in DOMAIN league.free_agents :
       /\ league.free_agents[k].position # "QB"
       /\ league.free_agents[k].projected_points > MinProjection

\* C24: the retry budget is per host request. Every call of the wrapper
\* starts at attempt 1 with no host call made, whatever earlier calls used;
\* it gives up only after StopAfterAttempt failed attempts of its own, so a
\* run with n requests makes up to StopAfterAttempt * n host calls; and after
\* a successful attempt the same request gets no further host call.
C24_BudgetPerRequest ==
  /\ [](/\ runAttempts[1] <= StopAfterAttempt * requests
        /\ hostCalls <= StopAfterAttempt
        /\ pc = "request" => attempt_number = hostCalls + 1
        /\ (pc = "raised" /\ error.type = "RetryError") =>
             /\ hostCalls = StopAfterAttempt
             /\ hostFailures = StopAfterAttempt)
  /\ [][/\ requests' # requests =>
           /\ pc' = "request"
           /\ attempt_number' = 1
           /\ hostCalls' = 0
           /\ hostFailures' = 0
           /\ runAttempts' = runAttempts
        /\ runAttempts' # runAttempts =>
           /\ pc = "request"
           /\ runAttempts'[1] = runAttempts[1] + 1
           /\ hostCalls' = hostCalls + 1
        /\ pc = "attempt_ok" =>
           /\ pc' = "returning"
           /\ req' = NoRequest
           /\ runAttempts' = runAttempts
        /\ (pc = "returning" /\ pc' = "request") => requests' = requests + 1]_vars

\* The second request of a run is on its sixth attempt after the first
\* request used all six of its own.
C24_Witness ==
  /\ pc = "request"
  /\ requests = 2
  /\ attempt_number = StopAfterAttempt
  /\ hostCalls = StopAfterAttempt - 1
  /\ runAttempts = Some(2 * StopAfterAttempt - 1)

====
